---- MODULE Spec2Model ----
(***************************************************************************)
(* Data-ingestion connectors (CSV, JSON, PostgreSQL) of the pipeline       *)
(* framework, modelled as one connector object driven by a single-threaded *)
(* caller.  Every method of the connector classes is an operator from the  *)
(* object (a record of its fields) and the environment's answer to the     *)
(* method's outcome; every action is one call of a method by the caller.   *)
(***************************************************************************)
EXTENDS Integers, Sequences, FiniteSets, TLC

VARIABLES
    self,        \* the connector object: its class and its fields
    file,        \* the state of the path a file connector points at
    nrows,       \* number of data rows of the file / of the base query's result
    live,        \* database handles opened and not yet released
    nextHandle,  \* identity of the next handle the driver hands out
    now,         \* the wall clock, datetime.now()
    ret,         \* outcome of the caller's most recent call
    scope,       \* position of the caller relative to a with-block
    pag,         \* frame of extract_with_pagination (locals and position)
    meta,        \* the connector's config and the last get_metadata() result
    chk,         \* frame of the extract_chunked generator
    gen,         \* the process-wide random streams and the generator instances
    anom         \* frame of inject_anomalies (locals and position)

vars == <<self, file, nrows, live, nextHandle, now, ret, scope, pag,
          meta, chk, gen, anom>>

\* The state of the components a connector call does not touch.
Others == <<meta, chk, gen, anom>>

----------------------------------------------------------------------------
(* Bounds of the model *)

MaxCalls == 4
MaxRows == 3
MaxPage == 2

----------------------------------------------------------------------------
(* Values *)

None == 0

CSV == "CSVConnector"
JSON == "JSONConnector"
PG == "PostgreSQLConnector"

Modes == {"psycopg2", "sqlalchemy", "other"}

FileStates == {"missing", "directory", "unreadable", "regular"}

NetStates == {"ok", "create_fail", "refused"}

\* Strings that matter to the code by their truthiness are token sequences.
NoneStr == <<>>
EmptyStr == <<"">>
Select1 == <<"SELECT 1">>

Truthy(s) == s # NoneStr /\ s # EmptyStr

Queries == {NoneStr, EmptyStr, <<"Q">>}
Tables == {NoneStr, EmptyStr, <<"T">>}

Min(a, b) == IF a < b THEN a ELSE b

Range(s) == {s[i] : i \in 1..Len(s)}

\* The rows the store holds for the base query (or the file's data rows).
Rows(n) == [i \in 1..n |-> i]

\* DataSourceConnector.__init__ and the subclasses' __init__
NewConnector(cls, mode) ==
    [cls |-> cls, mode |-> mode, connection |-> None, engine |-> None,
     connected |-> FALSE, last_extraction_time |-> None]

\* What a method call did: the object afterwards, what it returned or raised,
\* the statements it sent to the database, the methods it invoked, and the
\* handle it opened / released.
Out(s, returned, flag, table, exc, sent, calls, open, rel) ==
    [self |-> s, returned |-> returned, flag |-> flag, table |-> table,
     exc |-> exc, sent |-> sent, calls |-> calls, open |-> open, rel |-> rel]

ReturnBool(s, b, sent, calls, open) ==
    Out(s, "bool", b, <<>>, "none", sent, calls, open, None)

ReturnTable(s, t, sent, calls) ==
    Out(s, "table", FALSE, t, "none", sent, calls, None, None)

ReturnNone(s, calls, rel) ==
    Out(s, "none", FALSE, <<>>, "none", <<>>, calls, None, rel)

Raise(s, exc, sent, calls) ==
    Out(s, "raise", FALSE, <<>>, exc, sent, calls, None, None)

----------------------------------------------------------------------------
(* DataSourceConnector *)

log_extractionMut(s, t) == s

\* self.last_extraction_time = datetime.now(); the rest of the method logs.
log_extraction(s, t) == [s EXCEPT !.last_extraction_time = t]

----------------------------------------------------------------------------
(* CSVConnector *)

CSVConnect(s, f) ==
    IF f = "missing" THEN ReturnBool(s, FALSE, <<>>, <<"connect">>, None)
    ELSE IF f = "directory" THEN ReturnBool(s, FALSE, <<>>, <<"connect">>, None)
    ELSE IF f = "unreadable"
         THEN ReturnBool([s EXCEPT !.connected = FALSE], FALSE, <<>>, <<"connect">>, None)
    ELSE ReturnBool([s EXCEPT !.connected = TRUE], TRUE, <<>>, <<"connect">>, None)

CSVNotConnected(s) == ~s.connected

CSVExtract(s, f, parseOK, t, n) ==
    IF CSVNotConnected(s) THEN Raise(s, "ConnectionError", <<>>, <<"extract">>)
    ELSE IF f = "regular" /\ parseOK
         THEN ReturnTable(log_extraction(s, t), Rows(n), <<>>, <<"extract">>)
    ELSE Raise(log_extraction(s, t), "IOError", <<>>, <<"extract">>)

CSVValidate(s, f) ==
    ReturnBool(s, f \in {"regular", "unreadable"}, <<>>, <<"validate_connection">>, None)

CSVClose(s) == ReturnNone([s EXCEPT !.connected = FALSE], <<"close">>, None)

----------------------------------------------------------------------------
(* JSONConnector *)

JSONConnect(s, f) ==
    IF f = "missing" THEN Raise(s, "DataSourceException", <<>>, <<"connect">>)
    ELSE IF f = "directory" THEN Raise(s, "DataSourceException", <<>>, <<"connect">>)
    ELSE Raise(s, "AttributeError", <<>>, <<"connect">>)

----------------------------------------------------------------------------
(* PostgreSQLConnector *)

Handle(s) == IF s.mode = "psycopg2" THEN s.connection
             ELSE IF s.mode = "sqlalchemy" THEN s.engine
             ELSE None

\* Whether the store answers a statement sent on the connector's session.
StoreAnswers(s, dbOK, lv) ==
    dbOK /\ (s.mode = "sqlalchemy" \/ Handle(s) \in lv)

PooledConnectMut(s, net, h) ==
    IF net = "create_fail"
    THEN ReturnBool([s EXCEPT !.connected = FALSE], FALSE, <<>>, <<"connect">>, None)
    ELSE ReturnBool([s EXCEPT !.engine = h, !.connected = TRUE],
                    TRUE, <<>>, <<"connect">>, h)

\* The sqlalchemy branch of connect(): create the engine, then one SELECT 1
\* on a connection of the new engine; any exception ends in the except branch.
PooledConnect(s, net, h) ==
    IF net = "create_fail"
    THEN ReturnBool([s EXCEPT !.connected = FALSE], FALSE, <<>>, <<"connect">>, None)
    ELSE IF net = "refused"
    THEN ReturnBool([s EXCEPT !.engine = h, !.connected = FALSE],
                    FALSE, <<>>, <<"connect">>, h)
    ELSE ReturnBool([s EXCEPT !.engine = h, !.connected = TRUE],
                    TRUE, <<Select1>>, <<"connect">>, h)

PGConnect(s, net, h) ==
    IF s.mode = "psycopg2" THEN
        IF net = "ok"
        THEN ReturnBool([s EXCEPT !.connection = h, !.connected = TRUE],
                        TRUE, <<>>, <<"connect">>, h)
        ELSE ReturnBool([s EXCEPT !.connected = FALSE], FALSE, <<>>, <<"connect">>, None)
    ELSE IF s.mode = "sqlalchemy" THEN PooledConnect(s, net, h)
    ELSE ReturnBool([s EXCEPT !.connected = TRUE], TRUE, <<>>, <<"connect">>, None)

PGNotConnectedMut(s) == FALSE

PGNotConnected(s) == ~s.connected

EffectiveQueryTableFirst(query, table) ==
    IF Truthy(table) THEN <<"SELECT * FROM">> \o table
    ELSE IF Truthy(query) THEN query
    ELSE NoneStr

EffectiveQueryMut(query, table) ==
    IF Truthy(query) THEN query ELSE <<"SELECT * FROM">> \o table

\* The statement extract() runs; NoneStr stands for the ValueError raised when
\* neither a query nor a table is given.
EffectiveQuery(query, table) ==
    IF Truthy(query) THEN query
    ELSE IF Truthy(table) THEN <<"SELECT * FROM">> \o table
    ELSE NoneStr

\* What the store answers to a statement: a LIMIT/OFFSET window of the base
\* query's rows, or all of them.
DBRows(sql, n) ==
    IF Len(sql) = 5
    THEN SubSeq(Rows(n), sql[5] + 1, Min(sql[5] + sql[3], n))
    ELSE Rows(n)

ExtractFailureMut(s, t, exc, sent) ==
    ReturnTable(log_extraction(s, t), <<>>, sent, <<"extract">>)

\* The except branch of extract(): log, record the failure, re-raise.
ExtractFailure(s, t, exc, sent) ==
    Raise(log_extraction(s, t), exc, sent, <<"extract">>)

PGExtract(s, query, table, dbOK, t, n, lv) ==
    IF PGNotConnected(s) THEN Raise(s, "ConnectionError", <<>>, <<"extract">>)
    ELSE LET sql == EffectiveQuery(query, table) IN
        IF sql = NoneStr THEN ExtractFailure(s, t, "ValueError", <<>>)
        ELSE IF s.mode \notin {"psycopg2", "sqlalchemy"}
             THEN ExtractFailure(s, t, "UnboundLocalError", <<>>)
        ELSE IF Handle(s) = None THEN ExtractFailure(s, t, "DBError", <<>>)
        ELSE IF StoreAnswers(s, dbOK, lv)
             THEN ReturnTable(log_extraction(s, t), DBRows(sql, n), <<sql>>, <<"extract">>)
        ELSE ExtractFailure(s, t, "DBError", <<sql>>)

PGValidate(s, dbOK, lv) ==
    IF s.mode = "psycopg2" THEN
        IF s.connection = None \/ s.connection \notin lv
        THEN ReturnBool(s, FALSE, <<>>, <<"validate_connection">>, None)
        ELSE ReturnBool(s, dbOK, <<Select1>>, <<"validate_connection">>, None)
    ELSE IF s.mode = "sqlalchemy"
        THEN ReturnBool(s, FALSE, <<>>, <<"validate_connection">>, None)
    ELSE ReturnBool(s, TRUE, <<>>, <<"validate_connection">>, None)

PGClose(s, relOK) ==
    IF s.mode \in {"psycopg2", "sqlalchemy"} /\ Handle(s) # None
    THEN IF relOK
         THEN ReturnNone([s EXCEPT !.connected = FALSE], <<"close">>, Handle(s))
         ELSE ReturnNone(s, <<"close">>, None)
    ELSE ReturnNone([s EXCEPT !.connected = FALSE], <<"close">>, None)

PaginatedQuery(query, page_size, offset) ==
    query \o <<"LIMIT", page_size, "OFFSET", offset>>

PageEmptyMut(chunk) == FALSE

PageEmpty(chunk) == Len(chunk) = 0

NextOffsetMut(offset, page_size, chunk) == offset + Len(chunk)

NextOffsetSkip(offset, page_size, chunk) == offset + page_size + 1

NextOffset(offset, page_size, chunk) == offset + page_size

RECURSIVE Concat(_)
Concat(chunks) ==
    IF chunks = <<>> THEN <<>> ELSE Head(chunks) \o Concat(Tail(chunks))

----------------------------------------------------------------------------
(* Dispatch on the connector's class, and the scoped-acquisition protocol *)

ConnectOf(s, f, net, h) ==
    IF s.cls = CSV THEN CSVConnect(s, f)
    ELSE IF s.cls = JSON THEN JSONConnect(s, f)
    ELSE PGConnect(s, net, h)

CloseOf(s, relOK) == IF s.cls = CSV THEN CSVClose(s) ELSE PGClose(s, relOK)

Enter(s, f, net, h) ==
    LET o == ConnectOf(s, f, net, h) IN
    IF o.exc # "none" THEN o ELSE [o EXCEPT !.returned = "self", !.flag = FALSE]

Exit(s, relOK) == CloseOf(s, relOK)

----------------------------------------------------------------------------
(* State machine *)

NoCall ==
    [op |-> "none", args |-> <<>>, pre |-> FALSE, env |-> FALSE,
     returned |-> "none", flag |-> FALSE, table |-> <<>>, exc |-> "none",
     sent |-> <<>>, calls |-> <<>>]

Ret(op, args, env, o) ==
    [op |-> op, args |-> args, pre |-> self.connected, env |-> env,
     returned |-> o.returned, flag |-> o.flag, table |-> o.table, exc |-> o.exc,
     sent |-> o.sent, calls |-> o.calls]

IdlePag ==
    [pc |-> "idle", query |-> NoneStr, page_size |-> 0, offset |-> 0,
     all_data |-> <<>>, requests |-> <<>>, pages |-> <<>>]

IdleMeta ==
    [config |-> <<>>, called |-> FALSE, at |-> 0,
     result |-> [connector_type |-> "", connected |-> FALSE,
                 last_extraction |-> None, config |-> <<>>]]

IdleChk == [frames |-> <<>>]

IdleGen ==
    [schema |-> <<>>, n |-> 0,
     rng |-> [seed |-> None, npos |-> 0, fpos |-> 0],
     hist |-> <<>>]

EmptyFrame == [cols |-> <<>>, rows |-> <<>>]

IdleAnom ==
    [pc |-> "idle", input |-> EmptyFrame, df |-> EmptyFrame, rate |-> 0,
     kinds |-> <<>>, i |-> 0, applied |-> <<>>,
     before |-> EmptyFrame, hits |-> <<>>, handed |-> <<>>,
     orig |-> EmptyFrame, shared |-> FALSE]

InitConn ==
    /\ \E c \in {CSV, JSON, PG} :
         \E m \in Modes :
            /\ c # PG => m = "other"
            /\ self = NewConnector(c, IF c = PG THEN m ELSE "")
    /\ file \in FileStates
    /\ self.cls = PG => file = "regular"
    /\ nrows \in 0..MaxRows
    /\ live = {}
    /\ nextHandle = 1
    /\ now = 1
    /\ ret = NoCall
    /\ scope = "outside"
    /\ pag = IdlePag

Init ==
    /\ InitConn
    /\ meta = IdleMeta
    /\ chk = IdleChk
    /\ gen = IdleGen
    /\ anom = IdleAnom

\* Whether the environment lets a connection attempt through: the path is a
\* readable regular file, or the database accepts the session.
Reachable(s, f, net) == IF s.cls = PG THEN net = "ok" ELSE f = "regular"

CanCall == pag.pc # "loop" /\ now <= MaxCalls

\* The caller's call returns: the object, the handles and the clock move on.
Apply(op, args, env, o) ==
    /\ self' = o.self
    /\ ret' = Ret(op, args, env, o)
    /\ live' = (live \cup (IF o.open = None THEN {} ELSE {o.open}))
                 \ (IF o.rel = None THEN {} ELSE {o.rel})
    /\ nextHandle' = IF o.open = None THEN nextHandle ELSE nextHandle + 1
    /\ now' = now + 1
    /\ UNCHANGED <<file, nrows>>
    /\ UNCHANGED Others

Connect ==
    /\ CanCall
    /\ \E net \in NetStates :
         Apply("connect", <<>>, Reachable(self, file, net),
               ConnectOf(self, file, net, nextHandle))
    /\ UNCHANGED <<scope, pag>>

CSVExtractCall ==
    /\ CanCall
    /\ self.cls = CSV
    /\ \E parseOK \in BOOLEAN :
         Apply("extract", <<>>, parseOK, CSVExtract(self, file, parseOK, now, nrows))
    /\ UNCHANGED <<scope, pag>>

PGExtractCall ==
    /\ CanCall
    /\ self.cls = PG
    /\ \E query \in Queries, table \in Tables, dbOK \in BOOLEAN :
         Apply("extract", <<query, table>>, dbOK,
               PGExtract(self, query, table, dbOK, now, nrows, live))
    /\ UNCHANGED <<scope, pag>>

ValidateCall ==
    /\ CanCall
    /\ self.cls \in {CSV, PG}
    /\ \E dbOK \in BOOLEAN :
         Apply("validate_connection", <<>>, dbOK,
               IF self.cls = CSV THEN CSVValidate(self, file)
               ELSE PGValidate(self, dbOK, live))
    /\ UNCHANGED <<scope, pag>>

CloseCall ==
    /\ CanCall
    /\ self.cls \in {CSV, PG}
    /\ \E relOK \in BOOLEAN : Apply("close", <<>>, relOK, CloseOf(self, relOK))
    /\ UNCHANGED <<scope, pag>>

\* with connector as c: ...
EnterScope ==
    /\ CanCall
    /\ self.cls \in {CSV, PG}
    /\ scope = "outside"
    /\ \E net \in NetStates :
         LET o == Enter(self, file, net, nextHandle) IN
         /\ Apply("__enter__", <<>>, Reachable(self, file, net), o)
         /\ scope' = IF o.exc = "none" THEN "inside" ELSE "outside"
    /\ UNCHANGED pag

\* The with-block is left, by its body completing or by its body raising.
ExitScope ==
    /\ pag.pc # "loop"
    /\ scope = "inside"
    /\ \E relOK \in BOOLEAN, path \in {"normal", "exception"} :
         Apply("__exit__", <<path>>, relOK, Exit(self, relOK))
    /\ scope' = "outside"
    /\ UNCHANGED pag

PaginationStart ==
    /\ CanCall
    /\ self.cls = PG
    /\ \E p \in 0..MaxPage :
         pag' = [pc |-> "loop", query |-> <<"Q">>, page_size |-> p, offset |-> 0,
                 all_data |-> <<>>, requests |-> <<>>, pages |-> <<>>]
    /\ ret' = [NoCall EXCEPT !.op = "extract_with_pagination", !.returned = "pending",
                             !.pre = self.connected]
    /\ UNCHANGED <<self, file, nrows, live, nextHandle, now, scope>>
    /\ UNCHANGED Others

\* One iteration of the while-loop of extract_with_pagination.
PaginationStep ==
    /\ pag.pc = "loop"
    /\ \E dbOK \in BOOLEAN :
         LET sql == PaginatedQuery(pag.query, pag.page_size, pag.offset)
             o == PGExtract(self, sql, NoneStr, dbOK, now, nrows, live)
             reqs == Append(pag.requests, sql)
             answered == o.sent # <<>> /\ StoreAnswers(self, dbOK, live)
         IN
         IF o.exc # "none" THEN
            /\ pag' = [pag EXCEPT !.pc = "raised", !.requests = reqs,
                                  !.pages = Append(@, [ok |-> answered, rows |-> <<>>])]
            /\ Apply("extract_with_pagination", <<pag.query, pag.page_size>>, dbOK, o)
         ELSE IF PageEmpty(o.table) THEN
            /\ pag' = [pag EXCEPT !.pc = "returned", !.requests = reqs,
                                  !.pages = Append(@, [ok |-> answered, rows |-> o.table])]
            /\ Apply("extract_with_pagination", <<pag.query, pag.page_size>>, dbOK,
                     [o EXCEPT !.table = Concat(pag.all_data)])
         ELSE
            /\ pag' = [pag EXCEPT !.requests = reqs,
                                  !.pages = Append(@, [ok |-> answered, rows |-> o.table]),
                                  !.all_data = Append(@, o.table),
                                  !.offset = NextOffset(@, pag.page_size, o.table)]
            /\ Apply("extract_with_pagination", <<pag.query, pag.page_size>>, dbOK,
                     [o EXCEPT !.returned = "pending", !.table = <<>>])
    /\ UNCHANGED scope

\* The file system changes under the connector.
FileChange ==
    /\ self.cls \in {CSV, JSON}
    /\ \E f \in FileStates \ {file} : file' = f
    /\ UNCHANGED <<self, nrows, live, nextHandle, now, ret, scope, pag>>
    /\ UNCHANGED Others

\* The runtime finalizes a handle object the connector no longer refers to
\* (reference counting / garbage collection may or may not get there).
GarbageCollect ==
    /\ \E h \in live \ {self.connection, self.engine} : live' = live \ {h}
    /\ UNCHANGED <<self, file, nrows, nextHandle, now, ret, scope, pag>>
    /\ UNCHANGED Others

Next ==
    \/ Connect
    \/ CSVExtractCall
    \/ PGExtractCall
    \/ ValidateCall
    \/ CloseCall
    \/ EnterScope
    \/ ExitScope
    \/ PaginationStart
    \/ PaginationStep
    \/ FileChange
    \/ GarbageCollect

Spec == Init /\ [][Next]_vars

\* The runtime keeps running a paginated read that has started: each
\* iteration of its loop is eventually executed.
FairSpec == Spec /\ WF_vars(PaginationStep)

----------------------------------------------------------------------------
(* CSVConnector.extract_chunked: a generator over the file's chunks *)

MaxChunkSize == 2
MaxFrames == 2

ChunkEndMut(pos, chunksize, n) == Min(pos + chunksize + 1, n)

\* The last row of the chunk that read(nrows = chunksize) returns
ChunkEnd(pos, chunksize, n) == Min(pos + chunksize, n)

\* The generator object a call of extract_chunked returns: no line of the
\* body has run yet. connected is the connector's flag as it was when the
\* generator was created or last resumed.
NewFrame(chunksize) ==
    [chunksize |-> chunksize, pc |-> "created", pos |-> 0, yielded |-> <<>>,
     connected |-> FALSE]

AdvanceGuarded(fr, f, n) ==
    IF ~fr.connected \/ (fr.pc = "created" /\ f # "regular")
    THEN [fr EXCEPT !.pc = "raised"]
    ELSE IF fr.pos < n \/ fr.pc = "created"
         THEN [fr EXCEPT
                 !.pc = "reading",
                 !.pos = ChunkEnd(fr.pos, fr.chunksize, n),
                 !.yielded = Append(@, [k \in 1..(ChunkEnd(fr.pos, fr.chunksize, n) - fr.pos)
                                          |-> Rows(n)[fr.pos + k]])]
         ELSE [fr EXCEPT !.pc = "exhausted"]

\* next() on the generator. The first next() opens the file and fails if it
\* cannot be read; the reader then returns the next rows, an empty first
\* chunk for a file without data rows, and stops when no row is left.
Advance(fr, f, n) ==
    IF fr.pc = "created" /\ f # "regular"
    THEN [fr EXCEPT !.pc = "raised"]
    ELSE IF fr.pos < n \/ fr.pc = "created"
         THEN [fr EXCEPT
                 !.pc = "reading",
                 !.pos = ChunkEnd(fr.pos, fr.chunksize, n),
                 !.yielded = Append(@, [k \in 1..(ChunkEnd(fr.pos, fr.chunksize, n) - fr.pos)
                                          |-> Rows(n)[fr.pos + k]])]
         ELSE [fr EXCEPT !.pc = "exhausted"]

InitChunk ==
    /\ InitConn
    /\ self.cls = CSV
    /\ file \in {"missing", "directory", "regular"}
    /\ meta = IdleMeta
    /\ chk = IdleChk
    /\ gen = IdleGen
    /\ anom = IdleAnom

ChunkFrame == <<self, file, nrows, live, nextHandle, now, ret, scope, pag, meta, gen, anom>>

\* connector.extract_chunked(chunksize)
ExtractChunkedCall ==
    /\ Len(chk.frames) < MaxFrames
    /\ \E chunksize \in 1..MaxChunkSize :
          chk' = [chk EXCEPT !.frames =
                    Append(@, [NewFrame(chunksize) EXCEPT !.connected = self.connected])]
    /\ UNCHANGED ChunkFrame

\* next() on one of the generators
ChunkNext ==
    /\ \E k \in DOMAIN chk.frames :
          /\ chk.frames[k].pc \in {"created", "reading"}
          /\ chk' = [chk EXCEPT !.frames[k] =
                        Advance([@ EXCEPT !.connected = self.connected], file, nrows)]
    /\ UNCHANGED ChunkFrame

NextChunk ==
    \/ Connect
    \/ CloseCall
    \/ ExtractChunkedCall
    \/ ChunkNext

SpecChunk == InitChunk /\ [][NextChunk]_vars

----------------------------------------------------------------------------
(* get_metadata(): the connector's configuration and its descriptive mapping *)

\* Configuration keys are token sequences, so that lower-casing and the
\* substring test of the code are computed on them.
ConfigKeys ==
    {<<"host">>, <<"user">>, <<"password">>, <<"DB_", "PASSWORD">>, <<"api_key">>}

ValueOf(k) == <<"value of">> \o k

Configs == {[k \in D |-> ValueOf(k)] : D \in SUBSET ConfigKeys}

\* str.lower() on the tokens of a key
Lower(tok) ==
    CASE tok = "PASSWORD" -> "password"
      [] tok = "Password" -> "password"
      [] tok = "DB_" -> "db_"
      [] OTHER -> tok

LowerKey(k) == [i \in 1..Len(k) |-> Lower(k[i])]

\* "password" in k.lower()
ContainsPassword(k) == \E i \in 1..Len(k) : LowerKey(k)[i] = "password"

get_metadata(s, config) ==
    [connector_type |-> s.cls,
     connected |-> s.connected,
     last_extraction |-> s.last_extraction_time,
     config |-> [k \in {x \in DOMAIN config : ~ContainsPassword(x)} |-> config[k]]]

InitMeta ==
    /\ InitConn
    /\ nrows = 0
    /\ meta \in {[IdleMeta EXCEPT !.config = c] : c \in Configs}
    /\ chk = IdleChk
    /\ gen = IdleGen
    /\ anom = IdleAnom

GetMetadataCall ==
    /\ meta' = [meta EXCEPT !.called = TRUE, !.at = now,
                            !.result = get_metadata(self, meta.config)]
    /\ UNCHANGED <<self, file, nrows, live, nextHandle, now, ret, scope, pag,
                   chk, gen, anom>>

NextMeta ==
    \/ Connect
    \/ CSVExtractCall
    \/ CloseCall
    \/ GetMetadataCall

SpecMeta == InitMeta /\ [][NextMeta]_vars

----------------------------------------------------------------------------
(* SyntheticDataGenerator: __init__ and generate *)

MaxRecords == 2
MaxOps == 4
MaxTicks == 2

\* Tags served by the process-wide numpy stream, by the shared Faker stream,
\* and a tag the dispatch does not know.
NpTags == {"int", "float", "bool", "timestamp", "category", "amount", "price"}
FakerTags ==
    {"string", "name", "email", "phone", "address", "company", "date",
     "datetime", "uuid"}
SupportedTags == NpTags \cup FakerTags
UnknownTag == "unknown"

\* A schema is the ordered mapping of the code; its keys are the positions,
\* so they are unique as dictionary keys are.
Schemas ==
    {<<>>} \cup {<<t>> : t \in SupportedTags \cup {UnknownTag}}
           \cup {<<"int", "name">>, <<"timestamp", "int">>, <<"name", "date">>}

Seeds == {None, 1, 2}

\* The calendar day of an instant: several instants share one day.
Today(t) == t \div 2

\* What a temporal tag reads from the wall clock at instant t.
ClockBase(column_type, t) ==
    CASE column_type = "date" -> Today(t)
      [] column_type = "datetime" -> t
      [] column_type = "timestamp" -> t
      [] OTHER -> 0

DrawsMut(num_records) == 1..(num_records - 1)

\* range(num_records)
Draws(num_records) == 1..num_records

\* The missing-value marker (None / NaN) of a cell.
NaN == <<>>

\* A generated value is determined by its type tag, by the seed and position
\* of the stream it is drawn from, and by the clock reading it is based on.
_generate_column(column_type, num_records, rng, t) ==
    IF column_type \in FakerTags
    THEN [values |-> [i \in Draws(num_records) |->
                        <<column_type, rng.seed, rng.fpos + i,
                          ClockBase(column_type, t)>>],
          rng |-> [rng EXCEPT !.fpos = @ + num_records]]
    ELSE [values |-> [i \in Draws(num_records) |->
                        <<column_type, rng.seed, rng.npos + i,
                          ClockBase(column_type, t)>>],
          rng |-> [rng EXCEPT !.npos = @ + num_records]]

\* for column_name, column_type in schema.items(), from column c on
RECURSIVE GenerateColumns(_, _, _, _, _)
GenerateColumns(schema, num_records, rng, t, c) ==
    IF c > Len(schema)
    THEN [data |-> <<>>, rng |-> rng]
    ELSE LET col == _generate_column(schema[c], num_records, rng, t)
             rest == GenerateColumns(schema, num_records, col.rng, t, c + 1)
         IN [data |-> <<col.values>> \o rest.data, rng |-> rest.rng]

\* pd.DataFrame(data): one column per key; the row count is the columns'
\* common length, and 0 when there is no column.
DataFrame(data) == [columns |-> DOMAIN data, data |-> data]

\* len(df)
RowCount(df) ==
    IF df.columns = {} THEN 0 ELSE Len(df.data[CHOOSE c \in df.columns : TRUE])

generate(schema, num_records, rng, t) ==
    LET g == GenerateColumns(schema, num_records, rng, t, 1)
    IN [df |-> DataFrame(g.data), rng |-> g.rng]

\* Faker.seed(seed); np.random.seed(seed): both streams are process-wide.
Reseed(rng, seed) ==
    IF seed # None THEN [seed |-> seed, npos |-> 0, fpos |-> 0] ELSE rng

InitGen ==
    /\ InitConn
    /\ self = NewConnector(CSV, "")
    /\ file = "regular"
    /\ nrows = 0
    /\ meta = IdleMeta
    /\ chk = IdleChk
    /\ gen \in {[IdleGen EXCEPT !.schema = sc, !.n = n] :
                    sc \in Schemas, n \in 0..MaxRecords}
    /\ anom = IdleAnom

GenFrame == <<self, file, nrows, live, nextHandle, ret, scope, pag, meta, chk, anom>>

\* SyntheticDataGenerator(seed = seed)
NewGenerator ==
    /\ Len(gen.hist) < MaxOps
    /\ \E seed \in Seeds :
          gen' = [gen EXCEPT
                    !.rng = Reseed(@, seed),
                    !.hist = Append(@, [op |-> "new", seed |-> seed, at |-> 0,
                                        g |-> 0, df |-> DataFrame(<<>>)])]
    /\ UNCHANGED now
    /\ UNCHANGED GenFrame

\* g.generate(schema, num_records) on the generator constructed at step g
GenerateCall ==
    /\ Len(gen.hist) < MaxOps
    /\ \E g \in {i \in DOMAIN gen.hist : gen.hist[i].op = "new"} :
          LET out == generate(gen.schema, gen.n, gen.rng, now)
          IN gen' = [gen EXCEPT
                       !.rng = out.rng,
                       !.hist = Append(@, [op |-> "generate",
                                           seed |-> gen.hist[g].seed,
                                           at |-> now, g |-> g, df |-> out.df])]
    /\ UNCHANGED now
    /\ UNCHANGED GenFrame

\* The wall clock advances between two operations.
Tick ==
    /\ now <= MaxTicks
    /\ now' = now + 1
    /\ UNCHANGED gen
    /\ UNCHANGED GenFrame

NextGen ==
    \/ NewGenerator
    \/ GenerateCall
    \/ Tick

SpecGen == InitGen /\ [][NextGen]_vars

----------------------------------------------------------------------------
(* SyntheticDataGenerator.inject_anomalies and its three transforms *)

MaxTableRows == 4

\* In a running call, before is the table as _inject_outliers received it,
\* hits[c] the number of its iterations that chose column c, and handed the
\* counts passed to the transforms that have returned, in call order.
\* input is the caller's table object, orig its contents at the call.
\* A table handed to inject_anomalies: cols gives each column's dtype
\* ("num" is selected by np.number, "obj" is not), rows the rows in index
\* order. A cell is <<v>> or the missing-value marker; id names the row of
\* the input table a row comes from.
Layouts == {<<>>, <<"num">>, <<"obj">>, <<"num", "obj">>, <<"num", "num">>}
Patterns == {"none", "first", "all"}

AnomTable(layout, n, pat) ==
    [cols |-> layout,
     rows |-> [r \in 1..n |->
                [id |-> r,
                 cells |-> [c \in 1..Len(layout) |->
                              IF pat = "all" \/ (pat = "first" /\ r = 1 /\ c = 1)
                              THEN NaN
                              ELSE <<r + c>>]]]]

AnomTables ==
    {AnomTable(l, n, p) : l \in Layouts, n \in 0..MaxTableRows, p \in Patterns}

\* anomaly_rate in tenths, within the documented range 0.0-1.0
Rates == {0, 3, 5, 10}

KindLists ==
    {<<>>, <<"nulls">>, <<"outliers">>, <<"duplicates">>,
     <<"nulls", "outliers", "duplicates">>, <<"duplicates", "nulls">>,
     <<"nulls", "type_errors">>, <<"duplicates", "duplicates">>}

\* int(len(df) * anomaly_rate)
num_anomalies(a) == (Len(a.input.rows) * a.rate) \div 10

PerKindMut(a) == num_anomalies(a)

\* num_anomalies // len(anomaly_types)
PerKind(a) == num_anomalies(a) \div Len(a.kinds)

\* df.isnull().sum().sum()
MissingCells(df) ==
    Cardinality({rc \in (1..Len(df.rows)) \X (1..Len(df.cols)) :
                    df.rows[rc[1]].cells[rc[2]] = NaN})

SetCellMut(df, r, c, v) == df

\* df.iloc[r, c] = v / df.at[r, col] = v
SetCell(df, r, c, v) == [df EXCEPT !.rows[r].cells[c] = v]

NumericColsMut(df) == 1..Len(df.cols)

\* df.select_dtypes(include=[np.number]).columns
NumericCols(df) == {c \in 1..Len(df.cols) : df.cols[c] = "num"}

\* df[col].max(): missing cells are skipped; missing when none is left
ColMax(df, c) ==
    LET vals == {df.rows[r].cells[c][1] :
                    r \in {x \in 1..Len(df.rows) : df.rows[x].cells[c] # NaN}}
    IN IF vals = {} THEN NaN
       ELSE <<CHOOSE m \in vals : \A v \in vals : v <= m>>

TimesTenMut(v) == IF v = NaN THEN NaN ELSE <<v[1] * 2>>

\* max_val * 10
TimesTen(v) == IF v = NaN THEN NaN ELSE <<v[1] * 10>>

SampleMut(S, count) == [1..count -> S]

\* np.random.choice(df.index, count, replace=False)
Sample(S, count) ==
    {s \in [1..count -> S] : \A i, j \in 1..count : i # j => s[i] # s[j]}

AppendCopiesMut(df, indices) ==
    [df EXCEPT !.rows = @ \o [k \in 1..Len(indices) |->
                                [id |-> df.rows[indices[k]].id,
                                 cells |-> [c \in 1..Len(df.cols) |-> NaN]]]]

\* pd.concat([df, df.loc[indices].copy()], ignore_index=True)
AppendCopies(df, indices) ==
    [df EXCEPT !.rows = @ \o [k \in 1..Len(indices) |-> df.rows[indices[k]]]]

copyMut(df) == [table |-> df, shared |-> TRUE]

\* df.copy(): a new table object with the contents of df. shared tells
\* whether the table the transforms work on is the caller's object.
copy(df) == [table |-> df, shared |-> FALSE]

\* The caller's table after an in-place write to the working table: the
\* write reaches it only if both are one object.
WriteThrough(a, callers, written) == IF a.shared THEN written ELSE callers

InitAnom ==
    /\ InitConn
    /\ self = NewConnector(CSV, "")
    /\ file = "regular"
    /\ nrows = 0
    /\ meta = IdleMeta
    /\ chk = IdleChk
    /\ gen = IdleGen
    /\ anom \in {[IdleAnom EXCEPT !.input = t] : t \in AnomTables}

AnomFrame ==
    <<self, file, nrows, live, nextHandle, now, ret, scope, pag, meta, chk, gen>>

\* inject_anomalies(df, anomaly_rate, anomaly_types) up to the first transform
InjectStart ==
    /\ anom.pc = "idle"
    /\ \E rate \in Rates, kinds \in KindLists :
          anom' = [anom EXCEPT !.pc = "nulls", !.df = copy(anom.input).table,
                               !.shared = copy(anom.input).shared,
                               !.orig = anom.input, !.rate = rate,
                               !.kinds = kinds, !.i = 0, !.applied = <<>>,
                               !.before = anom.input, !.handed = <<>>,
                               !.hits = [c \in 1..Len(anom.input.cols) |-> 0]]
    /\ UNCHANGED AnomFrame

\* One iteration of the loop of _inject_nulls
NullsStep ==
    /\ anom.pc = "nulls"
    /\ "nulls" \in Range(anom.kinds)
    /\ anom.i < PerKind(anom)
    /\ IF Len(anom.df.rows) = 0 \/ Len(anom.df.cols) = 0
       THEN anom' = [anom EXCEPT !.pc = "raised"]
       ELSE \E r \in 1..Len(anom.df.rows), c \in 1..Len(anom.df.cols) :
              anom' = [anom EXCEPT !.df = SetCell(@, r, c, NaN), !.i = @ + 1,
                                   !.input = WriteThrough(anom, @, SetCell(anom.df, r, c, NaN))]
    /\ UNCHANGED AnomFrame

\* 'nulls' is not requested, or _inject_nulls returns
NullsDone ==
    /\ anom.pc = "nulls"
    /\ IF "nulls" \in Range(anom.kinds) THEN anom.i >= PerKind(anom) ELSE TRUE
    /\ anom' = [anom EXCEPT
                  !.pc = "outliers", !.i = 0,
                  !.before = anom.df,
                  !.applied = IF "nulls" \in Range(anom.kinds)
                              THEN Append(@, "nulls") ELSE @,
                  !.handed = IF "nulls" \in Range(anom.kinds)
                             THEN Append(@, PerKind(anom)) ELSE @]
    /\ UNCHANGED AnomFrame

\* One iteration of the loop of _inject_outliers
OutliersStep ==
    /\ anom.pc = "outliers"
    /\ "outliers" \in Range(anom.kinds)
    /\ NumericCols(anom.df) # {}
    /\ anom.i < PerKind(anom)
    /\ \E r \in 1..Len(anom.df.rows), c \in NumericCols(anom.df) :
          anom' = [anom EXCEPT
                     !.df = SetCell(@, r, c, TimesTen(ColMax(anom.df, c))),
                     !.input = WriteThrough(anom, @,
                                 SetCell(anom.df, r, c, TimesTen(ColMax(anom.df, c)))),
                     !.hits[c] = @ + 1,
                     !.i = @ + 1]
    /\ UNCHANGED AnomFrame

\* 'outliers' is not requested, or _inject_outliers returns
OutliersDone ==
    /\ anom.pc = "outliers"
    /\ IF "outliers" \in Range(anom.kinds)
       THEN IF NumericCols(anom.df) = {} THEN TRUE ELSE anom.i >= PerKind(anom)
       ELSE TRUE
    /\ anom' = [anom EXCEPT
                  !.pc = "duplicates", !.i = 0,
                  !.applied = IF "outliers" \in Range(anom.kinds)
                              THEN Append(@, "outliers") ELSE @,
                  !.handed = IF "outliers" \in Range(anom.kinds)
                             THEN Append(@, PerKind(anom)) ELSE @]
    /\ UNCHANGED AnomFrame

\* _inject_duplicates if requested, then inject_anomalies returns
DuplicatesAndReturn ==
    /\ anom.pc = "duplicates"
    /\ IF "duplicates" \notin Range(anom.kinds)
       THEN anom' = [anom EXCEPT !.pc = "returned"]
       ELSE IF PerKind(anom) > Len(anom.df.rows)
            THEN anom' = [anom EXCEPT !.pc = "raised"]
            ELSE \E s \in Sample(1..Len(anom.df.rows), PerKind(anom)) :
                   anom' = [anom EXCEPT !.pc = "returned",
                                        !.df = AppendCopies(@, s),
                                        !.applied = Append(@, "duplicates"),
                                        !.handed = Append(@, PerKind(anom))]
    /\ UNCHANGED AnomFrame

NextAnom ==
    \/ InjectStart
    \/ NullsStep
    \/ NullsDone
    \/ OutliersStep
    \/ OutliersDone
    \/ DuplicatesAndReturn

SpecAnom == InitAnom /\ [][NextAnom]_vars

----------------------------------------------------------------------------
(* Properties *)

\* A step in which the caller's call ran (the clock moves only with calls).
CallStep == now' = now + 1

PagePages == pag.pages
PageRequests == pag.requests

\* C1: in every state where the connected flag of a CSV or PostgreSQL
\* connector is false, a call that runs extract() raises ConnectionError,
\* returns no table and leaves every field of the connector unchanged.
C1_ExtractUnconnectedRaises ==
    [][(/\ CallStep
        /\ self.cls \in {CSV, PG}
        /\ ~self.connected
        /\ "extract" \in Range(ret'.calls))
       => (/\ ret'.exc = "ConnectionError"
           /\ ret'.returned = "raise"
           /\ ret'.table = <<>>
           /\ ret'.sent = <<>>
           /\ self' = self)]_vars

\* C1 witness: extract() was refused on a connector that had connected and
\* extracted before, and whose flag has gone back to false since.
C1_Witness ==
    /\ ret.op = "extract"
    /\ ~ret.pre
    /\ ret.exc = "ConnectionError"
    /\ self.last_extraction_time # None

\* C2 (as claimed): every close() of a CSV or PostgreSQL connector returns
\* with the connected flag false, whatever the release of the handle did.
C2_CloseAlwaysDisconnects ==
    (ret.op = "close" /\ self.cls \in {CSV, PG})
        => (ret.returned = "none" /\ ~self.connected)

\* C3 (as claimed): entering a with-block invokes connect() exactly once,
\* leaving it invokes close() on the normal and on the exceptional path, and
\* once the block is left the connected flag is false.
C3_ScopedAcquisition ==
    /\ ret.op = "__enter__" => ret.calls = <<"connect">>
    /\ ret.op = "__exit__" => (ret.calls = <<"close">> /\ ~self.connected)

\* C4 (as claimed): connect() of the CSV, JSON and PostgreSQL (psycopg2 and
\* sqlalchemy mode) connectors never raises when the environment refuses the
\* connection; it returns false.
C4_ConnectNeverRaises ==
    (/\ ret.op = "connect"
     /\ ~ret.env
     /\ self.cls = PG => self.mode \in {"psycopg2", "sqlalchemy"})
        => (ret.returned = "bool" /\ ~ret.flag)

\* C5 (as claimed): whenever connect() has returned false the connected flag
\* is false, also when an earlier connect() on the same connector succeeded.
C5_FailedConnectLeavesUnconnected ==
    (ret.op = "connect" /\ ret.returned = "bool" /\ ~ret.flag)
        => ~self.connected

\* C6: PostgreSQL extract() on a connected connector with neither a query nor
\* a table name raises ValueError (not ConnectionError) to the caller and
\* sends no statement to the database.
C6_NeitherQueryNorTable ==
    (/\ ret.op = "extract"
     /\ self.cls = PG
     /\ ret.pre
     /\ ~Truthy(ret.args[1])
     /\ ~Truthy(ret.args[2]))
        => (/\ ret.returned = "raise"
            /\ ret.exc = "ValueError"
            /\ ret.exc # "ConnectionError"
            /\ ret.sent = <<>>)

C6_Witness ==
    /\ ret.op = "extract"
    /\ self.cls = PG
    /\ ret.pre
    /\ ret.args = <<NoneStr, NoneStr>>
    /\ ret.exc = "ValueError"

\* C7: no page request is issued after the first page request that returned
\* zero rows: an empty page is always the last request of the read, and the
\* read has returned.
C7_StopsAtEmptyPage ==
    /\ Len(PagePages) = Len(PageRequests)
    /\ \A i \in 1..Len(PagePages) :
         (PagePages[i].ok /\ PagePages[i].rows = <<>>)
            => (i = Len(PageRequests) /\ pag.pc = "returned")

C7_Witness ==
    /\ pag.pc = "returned"
    /\ Len(PageRequests) = 3
    /\ PagePages[3].ok
    /\ PagePages[3].rows = <<>>

RECURSIVE NonEmptyPagesInOrder(_)
NonEmptyPagesInOrder(pages) ==
    IF pages = <<>> THEN <<>>
    ELSE (IF Head(pages).ok THEN Head(pages).rows ELSE <<>>)
            \o NonEmptyPagesInOrder(Tail(pages))

\* C8: the page requests carry the offsets 0, page_size, 2*page_size, ... in
\* that order, one request per step, and the table returned is the
\* concatenation, in request order, of exactly the non-empty pages fetched;
\* it is empty when the first page is empty.
C8_PagesConcatenated ==
    /\ \A i \in 1..Len(PageRequests) :
         PageRequests[i] = <<"Q", "LIMIT", pag.page_size, "OFFSET", (i - 1) * pag.page_size>>
    /\ (pag.pc = "returned" /\ ret.op = "extract_with_pagination")
         => (/\ ret.returned = "table"
             /\ ret.table = NonEmptyPagesInOrder(PagePages)
             /\ (PagePages[1].rows = <<>> => ret.table = <<>>))

C8_Witness ==
    /\ pag.pc = "returned"
    /\ ret.op = "extract_with_pagination"
    /\ pag.page_size = 2
    /\ Len(PageRequests) = 3
    /\ ret.table = <<1, 2, 3>>

\* C9: a failing page request ends the paginated read: it is the last request
\* (no retry, no later page), the read raises to the caller, and the pages
\* fetched before it are not returned.
C9_FailingPageAborts ==
    /\ \A i \in 1..Len(PagePages) :
         ~PagePages[i].ok => (i = Len(PageRequests) /\ pag.pc = "raised")
    /\ (pag.pc = "raised" /\ ret.op = "extract_with_pagination")
         => (/\ ret.returned = "raise"
             /\ ret.exc # "none"
             /\ ret.table = <<>>)

C9_Witness ==
    /\ pag.pc = "raised"
    /\ ret.op = "extract_with_pagination"
    /\ Len(PageRequests) = 2
    /\ PagePages[1].ok
    /\ PagePages[1].rows # <<>>
    /\ ret.exc = "DBError"

\* C10 (as claimed): validate_connection() of a PostgreSQL connector with an
\* active session sends the round-trip statement and returns, in psycopg2 and
\* in sqlalchemy mode, whether the round trip succeeded.
C10_ValidateRoundTrip ==
    (/\ ret.op = "validate_connection"
     /\ self.cls = PG
     /\ self.mode \in {"psycopg2", "sqlalchemy"}
     /\ self.connected)
        => (/\ ret.returned = "bool"
            /\ ret.sent = <<Select1>>
            /\ ret.flag = ret.env)

\* C12 (as claimed): after any sequence of connect() and close() calls on a
\* PostgreSQL connector, every handle opened by an earlier connect() has been
\* released, except at most the one the connector currently holds.
C12_NoLeakedHandle ==
    self.cls = PG => live \subseteq {Handle(self)}

\* C20: in sqlalchemy mode connect() returns true and sets the connected flag
\* only after one SELECT 1 round trip on the engine it has just created; when
\* the engine cannot be created or the round trip fails it returns false and
\* the flag is false.
C20_PooledConnectRoundTrip ==
    (ret.op = "connect" /\ self.cls = PG /\ self.mode = "sqlalchemy")
        => /\ ret.returned = "bool"
           /\ ret.flag = self.connected
           /\ ret.flag => (/\ ret.env
                           /\ ret.sent = <<Select1>>
                           /\ self.engine = nextHandle - 1
                           /\ self.engine \in live)
           /\ ~ret.env => (~ret.flag /\ ~self.connected)

C20_Witness ==
    /\ ret.op = "connect"
    /\ self.cls = PG
    /\ self.mode = "sqlalchemy"
    /\ ret.pre
    /\ ~ret.flag
    /\ ~self.connected
    /\ self.engine # None

\* A configuration field that holds a credential: a password under any
\* spelling of the key, or an API key.
CredentialShaped(k) == ContainsPassword(k) \/ k = <<"api_key">>

\* C11 (as claimed): get_metadata() returns the type tag, the connected flag,
\* the last extraction time and the configuration without any credential:
\* no credential-shaped field and no credential value is in the mapping
\* returned, whatever the configuration.
C11_MetadataRedactsCredentials ==
    (meta.called /\ meta.at = now)
        => /\ meta.result.connector_type = self.cls
           /\ meta.result.connected = self.connected
           /\ meta.result.last_extraction = self.last_extraction_time
           /\ \A k \in DOMAIN meta.config :
                CredentialShaped(k)
                    => /\ k \notin DOMAIN meta.result.config
                       /\ \A j \in DOMAIN meta.result.config :
                            meta.result.config[j] # meta.config[k]

\* The calls of generate() made so far.
Generated == {i \in DOMAIN gen.hist : gen.hist[i].op = "generate"}

\* The table has one column per schema key, every column has N values and
\* no value of a supported type tag is missing.
WellFormed(df) ==
    /\ df.columns = DOMAIN gen.schema
    /\ \A c \in df.columns :
         /\ Len(df.data[c]) = gen.n
         /\ gen.schema[c] \in SupportedTags
              => \A r \in 1..gen.n : df.data[c][r] # NaN

\* C13 (as claimed): for every schema and every row count N >= 0,
\* generate(schema, N) returns a table of exactly N rows with one column of
\* length N per schema key and no missing value for a supported type tag.
C13_ExactlyNRows ==
    \A i \in Generated :
        /\ RowCount(gen.hist[i].df) = gen.n
        /\ WellFormed(gen.hist[i].df)

\* C13 (amended): for every schema with at least one key and every row count
\* N >= 0, generate(schema, N) returns a table of exactly N rows with one
\* column of length N per schema key and no missing value for a supported
\* type tag; for the empty schema the table has no column and no row.
C13_ExactlyNRowsNonEmptySchema ==
    \A i \in Generated :
        /\ WellFormed(gen.hist[i].df)
        /\ gen.schema # <<>> => RowCount(gen.hist[i].df) = gen.n
        /\ gen.schema = <<>> => RowCount(gen.hist[i].df) = 0

C13_Witness ==
    \E i \in Generated :
        /\ Len(gen.schema) = 2
        /\ gen.n = 2
        /\ RowCount(gen.hist[i].df) = 2
        /\ gen.hist[i].df.columns = {1, 2}

\* The first generate() call of the generator it is made on.
FirstCallOfItsGenerator(i) ==
    \A k \in Generated : gen.hist[k].g = gen.hist[i].g => k >= i

\* C14 (as claimed): when two generators are constructed with the same seed
\* S and then generate(schema, N) is called on the first and on the second,
\* in that order and at the same clock reading, the two tables are equal:
\* a generator's output does not depend on calls made on the other one.
C14_SameSeedSameOutput ==
    \A i, j \in Generated :
        (/\ i < j
         /\ gen.hist[i].g < gen.hist[j].g
         /\ gen.hist[j].g < i
         /\ gen.hist[i].seed = gen.hist[j].seed
         /\ gen.hist[i].seed # None
         /\ gen.hist[i].at = gen.hist[j].at
         /\ FirstCallOfItsGenerator(i)
         /\ FirstCallOfItsGenerator(j))
            => gen.hist[i].df = gen.hist[j].df

\* Step i constructs a generator with an explicit seed and step i + 1 is
\* generate() on it.
ConstructThenGenerate(i) ==
    /\ i \in DOMAIN gen.hist
    /\ i + 1 \in Generated
    /\ gen.hist[i].op = "new"
    /\ gen.hist[i].seed # None
    /\ gen.hist[i + 1].g = i

\* C15 (as claimed): construct with seed S and generate(schema, N), done
\* twice with the same S, schema and N, yields identical tables both times,
\* for every schema over the supported type tags, date, datetime and
\* timestamp included.
C15_ConstructGenerateTwice ==
    \A i, j \in DOMAIN gen.hist :
        (/\ i < j
         /\ ConstructThenGenerate(i)
         /\ ConstructThenGenerate(j)
         /\ gen.hist[i].seed = gen.hist[j].seed
         /\ \A c \in DOMAIN gen.schema : gen.schema[c] \in SupportedTags)
            => gen.hist[i + 1].df = gen.hist[j + 1].df

\* inject_anomalies has returned for the single requested kind.
ReturnedFor(kind) == anom.pc = "returned" /\ anom.kinds = <<kind>>

\* floor(N * rate / 1) for the table handed in
FloorNRate == (Len(anom.input.rows) * anom.rate) \div 10

\* C16: with kinds = {duplicates} on a table of N rows the result has
\* exactly N + floor(N * rate) rows, the first N are the rows of T in their
\* order, and the appended rows are copies of pairwise distinct rows of T.
C16_DuplicatesAppendDistinctCopies ==
    ReturnedFor("duplicates")
        => LET N == Len(anom.input.rows)
               out == anom.df.rows
           IN /\ anom.df.cols = anom.input.cols
              /\ Len(out) = N + FloorNRate
              /\ \A r \in 1..N : out[r] = anom.input.rows[r]
              /\ \A k \in (N + 1)..Len(out) :
                    \E r \in 1..N : out[k] = anom.input.rows[r]
              /\ \A k, l \in (N + 1)..Len(out) :
                    k # l => out[k].id # out[l].id

C16_Witness ==
    /\ ReturnedFor("duplicates")
    /\ Len(anom.input.rows) = 3
    /\ Len(anom.df.rows) = 6
    /\ anom.df.rows[4].id = 2

\* C17 (as claimed): with kinds = {nulls} the result has strictly more
\* missing cells than T, unless the per-kind count floor(N * rate) is 0.
C17_NullsStrictlyMore ==
    ReturnedFor("nulls")
        => \/ FloorNRate = 0
           \/ MissingCells(anom.df) > MissingCells(anom.input)

\* C17 (amended): with kinds = {nulls} the result never has fewer missing
\* cells than T, has them wherever T has them, and has strictly more when
\* the per-kind count is at least 1 and T has no missing cell; it has the
\* same number when the count is 0.
C17_NullsNeverFewer ==
    ReturnedFor("nulls")
        => /\ MissingCells(anom.df) >= MissingCells(anom.input)
           /\ Len(anom.df.rows) = Len(anom.input.rows)
           /\ \A r \in 1..Len(anom.input.rows), c \in 1..Len(anom.input.cols) :
                \/ anom.df.rows[r].cells[c] = NaN
                \/ anom.df.rows[r].cells[c] = anom.input.rows[r].cells[c]
           /\ (FloorNRate >= 1 /\ MissingCells(anom.input) = 0)
                => MissingCells(anom.df) > 0
           /\ MissingCells(anom.df) <= MissingCells(anom.input) + FloorNRate

C17_Witness ==
    /\ ReturnedFor("nulls")
    /\ FloorNRate = 3
    /\ MissingCells(anom.input) = 0
    /\ MissingCells(anom.df) = 2

\* C18: with kinds = {outliers} on a table with no numeric column the
\* result equals T: same columns, same rows, same cell values.
C18_OutliersNoNumericColumn ==
    (/\ ReturnedFor("outliers")
     /\ \A c \in 1..Len(anom.input.cols) : anom.input.cols[c] # "num")
        => anom.df = anom.input

C18_Witness ==
    /\ ReturnedFor("outliers")
    /\ anom.input.cols = <<"obj">>
    /\ FloorNRate = 3
    /\ MissingCells(anom.input) = 0
    /\ anom.df = anom.input

\* ceil(R / c)
CeilDiv(R, c) == (R + c - 1) \div c

\* The chunks a generator has yielded are consecutive rows of the file from
\* its first row on, each of at most c rows and every one but the last
\* yielded of exactly c.
ChunksInOrder(fr) ==
    /\ Concat(fr.yielded) = SubSeq(Rows(nrows), 1, fr.pos)
    /\ \A k \in DOMAIN fr.yielded :
         /\ Len(fr.yielded[k]) <= fr.chunksize
         /\ k < Len(fr.yielded) => Len(fr.yielded[k]) = fr.chunksize

\* C19 (as claimed): extract_chunked(c) over a file of R data rows yields
\* ceil(R / c) chunks of at most c rows (all but the last of exactly c), in
\* file order, covering every row exactly once; each call starts from the
\* beginning of the file.
C19_ChunkedCoversFile ==
    \A k \in DOMAIN chk.frames :
        LET fr == chk.frames[k]
        IN /\ ChunksInOrder(fr)
           /\ fr.pc = "exhausted"
                => /\ Concat(fr.yielded) = Rows(nrows)
                   /\ Len(fr.yielded) = CeilDiv(nrows, fr.chunksize)

\* C19 (amended): the same for a file of R >= 1 data rows; for a file with
\* a header and no data row the sequence is one chunk without rows.
C19_ChunkedCoversNonEmptyFile ==
    \A k \in DOMAIN chk.frames :
        LET fr == chk.frames[k]
        IN /\ ChunksInOrder(fr)
           /\ fr.pc = "exhausted"
                => /\ Concat(fr.yielded) = Rows(nrows)
                   /\ nrows >= 1 => Len(fr.yielded) = CeilDiv(nrows, fr.chunksize)
                   /\ nrows = 0 => fr.yielded = << <<>> >>

C19_Witness ==
    /\ Len(chk.frames) = 2
    /\ nrows = 3
    /\ \A k \in {1, 2} :
         /\ chk.frames[k].pc = "exhausted"
         /\ chk.frames[k].yielded = << <<1, 2>>, <<3>> >>

\* The requested kinds among the three transforms, in the order the code
\* applies them.
RequestedInCodeOrder(kinds) ==
    (IF "nulls" \in Range(kinds) THEN <<"nulls">> ELSE <<>>)
        \o (IF "outliers" \in Range(kinds) THEN <<"outliers">> ELSE <<>>)
        \o (IF "duplicates" \in Range(kinds) THEN <<"duplicates">> ELSE <<>>)

\* C21: whatever the order of the kinds list, the transforms run as nulls,
\* then outliers, then duplicates, each on the table the previous one left;
\* the rows duplication appends are copies of rows as they stand after null
\* and outlier insertion.
C21_NullsOutliersDuplicates ==
    /\ anom.pc = "nulls" => anom.applied = <<>>
    /\ anom.pc = "outliers"
         => anom.applied = SelectSeq(RequestedInCodeOrder(anom.kinds),
                                     LAMBDA k : k = "nulls")
    /\ anom.pc = "duplicates"
         => /\ anom.applied = SelectSeq(RequestedInCodeOrder(anom.kinds),
                                        LAMBDA k : k # "duplicates")
            /\ Len(anom.df.rows) = Len(anom.input.rows)
    /\ anom.pc = "returned"
         => LET N == Len(anom.input.rows)
                out == anom.df.rows
            IN /\ anom.applied = RequestedInCodeOrder(anom.kinds)
               /\ \A k \in (N + 1)..Len(out) :
                     /\ out[k].id \in 1..N
                     /\ out[k] = out[out[k].id]

C21_Witness ==
    /\ anom.pc = "returned"
    /\ anom.kinds = <<"duplicates", "nulls">>
    /\ anom.applied = <<"nulls", "duplicates">>
    /\ MissingCells(anom.input) = 0
    /\ \E k \in (Len(anom.input.rows) + 1)..Len(anom.df.rows) :
          \E c \in 1..Len(anom.df.cols) : anom.df.rows[k].cells[c] = NaN

\* A step in which extract() ran on a CSV or PostgreSQL connector whose
\* connected flag was true.
ExtractOnConnected ==
    /\ CallStep
    /\ self.cls \in {CSV, PG}
    /\ self.connected
    /\ "extract" \in Range(ret'.calls)

\* C22 (as claimed): every extract() on a connected CSV or PostgreSQL
\* connector, successful or failed, sets last_extraction_time to the time
\* of the call and increases a success or failure count kept by the
\* connector: some field other than the timestamp records the call.
C22_ExtractRecordsTimeAndCount ==
    [][ExtractOnConnected
       => (/\ self'.last_extraction_time = now
           /\ ret'.returned \in {"table", "raise", "pending"}
           /\ \E f \in DOMAIN self \ {"last_extraction_time"} : self'[f] # self[f])]_vars

\* C22 (amended): every extract() on a connected CSV or PostgreSQL
\* connector, successful or failed, sets last_extraction_time to the time
\* of the call and changes no other field of the connector: the outcome is
\* logged, no success or failure count is kept.
C22_ExtractRecordsTimeOnly ==
    [][ExtractOnConnected
       => (/\ self'.last_extraction_time = now
           /\ ret'.returned \in {"table", "raise", "pending"}
           /\ self' = [self EXCEPT !.last_extraction_time = now])]_vars

\* C22 witness: a failed extract() on a connected connector, after an
\* earlier call, has stamped the time of the failed call.
C22_Witness ==
    /\ ret.op = "extract"
    /\ ret.pre
    /\ ret.returned = "raise"
    /\ now >= 3
    /\ self.last_extraction_time = now - 1

RECURSIVE Pow10(_)
Pow10(k) == IF k = 0 THEN 1 ELSE 10 * Pow10(k - 1)

RECURSIVE SumHits(_)
SumHits(h) == IF h = <<>> THEN 0 ELSE Head(h) + SumHits(Tail(h))

OutliersRan == anom.pc \in {"outliers", "duplicates", "returned"}

\* C23: outlier insertion writes to numeric columns only, and every
\* iteration writes ten times the chosen column's maximum of that moment:
\* after k hits, a column whose maximum before insertion was M > 0 has
\* maximum M * 10^k; with count >= 1 and one numeric column the maximum ends
\* above five times the original one.
C23_OutliersTenTimesCurrentMax ==
    OutliersRan
        => LET N == Len(anom.before.rows)
               T == anom.before
               done == anom.pc \in {"duplicates", "returned"}
           IN /\ \A c \in 1..Len(T.cols) :
                    /\ T.cols[c] # "num"
                         => /\ anom.hits[c] = 0
                            /\ \A r \in 1..N :
                                 anom.df.rows[r].cells[c] = T.rows[r].cells[c]
                    /\ (T.cols[c] = "num" /\ ColMax(T, c) # NaN /\ ColMax(T, c)[1] > 0)
                         => ColMax(anom.df, c) = <<ColMax(T, c)[1] * Pow10(anom.hits[c])>>
                    /\ \A r \in 1..N :
                         \/ anom.df.rows[r].cells[c] = T.rows[r].cells[c]
                         \/ anom.hits[c] >= 1
              /\ anom.pc = "outliers" => SumHits(anom.hits) = anom.i
              /\ (/\ done
                  /\ "outliers" \in Range(anom.kinds)
                  /\ Cardinality(NumericCols(T)) = 1)
                    => LET c == CHOOSE x \in NumericCols(T) : TRUE
                       IN /\ anom.hits[c] = PerKind(anom)
                          /\ (PerKind(anom) >= 1 /\ ColMax(T, c) # NaN)
                               => ColMax(anom.df, c)[1] > 5 * ColMax(T, c)[1]

C23_Witness ==
    /\ anom.pc = "returned"
    /\ anom.kinds = <<"outliers">>
    /\ anom.input.cols = <<"num", "obj">>
    /\ anom.hits = <<2, 0>>
    /\ ColMax(anom.input, 1) = <<5>>
    /\ ColMax(anom.df, 1) = <<500>>

\* C24: every transform that runs is handed floor(N * rate) div len(kinds),
\* len(kinds) being the length of the list as supplied; the counts handed
\* out sum to at most floor(N * rate); with an empty list nothing is
\* applied, nothing is divided and the table comes back as it was.
C24_EvenSplitOfTotal ==
    /\ anom.pc # "idle"
         => /\ Len(anom.handed) = Len(anom.applied)
            /\ \A k \in 1..Len(anom.handed) :
                 anom.handed[k] = FloorNRate \div Len(anom.kinds)
            /\ SumHits(anom.handed) <= FloorNRate
    /\ (anom.pc = "returned" /\ "duplicates" \in Range(anom.kinds))
         => Len(anom.df.rows)
              = Len(anom.input.rows) + FloorNRate \div Len(anom.kinds)
    /\ (anom.pc = "returned" /\ "outliers" \in Range(anom.kinds)
                             /\ NumericCols(anom.input) # {})
         => SumHits(anom.hits) = FloorNRate \div Len(anom.kinds)
    /\ (anom.pc # "idle" /\ anom.kinds = <<>>)
         => /\ anom.pc # "raised"
            /\ anom.applied = <<>>
            /\ anom.df = anom.input

C24_Witness ==
    /\ anom.pc = "returned"
    /\ anom.kinds = <<"nulls", "type_errors">>
    /\ FloorNRate = 3
    /\ anom.handed = <<1>>
    /\ MissingCells(anom.input) = 0
    /\ MissingCells(anom.df) = 1

\* C25 (as claimed): for every table of N rows, every rate in [0, 1] and
\* every non-empty kinds list, duplication is handed at most the rows
\* available, inject_anomalies does not fail, and it returns a table with
\* the input's columns whose rows all have one cell per column: N + count
\* rows when duplicates is requested, N rows otherwise.
C25_NoFailureWithinRateRange ==
    (anom.pc # "idle" /\ anom.kinds # <<>>)
        => /\ anom.pc # "raised"
           /\ (anom.pc = "duplicates" /\ "duplicates" \in Range(anom.kinds))
                => PerKind(anom) <= Len(anom.df.rows)
           /\ anom.pc = "returned"
                => /\ anom.df.cols = anom.input.cols
                   /\ \A r \in 1..Len(anom.df.rows) :
                        Len(anom.df.rows[r].cells) = Len(anom.df.cols)
                   /\ Len(anom.df.rows)
                        = Len(anom.input.rows)
                            + (IF "duplicates" \in Range(anom.kinds)
                               THEN PerKind(anom) ELSE 0)

\* Every page request issued so far was answered by the database.
AllPagesAnswered == \A i \in 1..Len(PagePages) : PagePages[i].ok

\* C26: with every page request succeeding, R rows and a page size p >= 1,
\* extract_with_pagination ends, and it ends after exactly ceil(R / p) + 1
\* page requests: a last page shorter than p is followed by one more request.
C26_PaginationTerminates ==
    /\ [](pag.pc \in {"loop", "returned"} /\ pag.page_size >= 1 /\ AllPagesAnswered
            => /\ Len(PageRequests) <= CeilDiv(nrows, pag.page_size) + 1
               /\ pag.pc = "returned"
                    <=> Len(PageRequests) = CeilDiv(nrows, pag.page_size) + 1)
    /\ (pag.pc = "loop" ~> pag.pc \in {"returned", "raised"})

C26_Witness ==
    /\ pag.pc = "returned"
    /\ AllPagesAnswered
    /\ nrows = 3
    /\ pag.page_size = 2
    /\ Len(PageRequests) = 3
    /\ Len(PagePages[2].rows) = 1

\* C27: PostgreSQL extract() on a connected connector runs the query string
\* when a (non-empty) one is supplied, otherwise SELECT * FROM <table> for
\* the table name given; with both supplied it runs the query, never the
\* table read, and raises no usage error. A successful call has sent
\* exactly that one statement.
C27_EffectiveQuery ==
    (ret.op = "extract" /\ self.cls = PG /\ ret.pre)
        => LET query == ret.args[1]
               table == ret.args[2]
               expected == IF Truthy(query) THEN query
                           ELSE <<"SELECT * FROM">> \o table
           IN (Truthy(query) \/ Truthy(table))
                => /\ ret.exc # "ValueError"
                   /\ ret.sent \in {<<>>, <<expected>>}
                   /\ ret.returned = "table" => ret.sent = <<expected>>
                   /\ ret.returned = "table" => ret.table = Rows(nrows)

C27_Witness ==
    /\ ret.op = "extract"
    /\ self.cls = PG
    /\ ret.pre
    /\ ret.args = << <<"Q">>, <<"T">> >>
    /\ ret.returned = "table"
    /\ ret.sent = << <<"Q">> >>

\* C28: inject_anomalies never modifies the table passed to it: at every
\* point of the call and after it the caller's table has the rows and cell
\* values it had at the call, whatever the rate and the kinds; the
\* anomalies are in the returned table only.
C28_InputNotModified ==
    anom.pc # "idle"
        => /\ anom.input = anom.orig
           /\ ~anom.shared

C28_Witness ==
    /\ anom.pc = "returned"
    /\ anom.kinds = <<"nulls", "outliers", "duplicates">>
    /\ FloorNRate = 4
    /\ Len(anom.df.rows) = Len(anom.input.rows) + 1
    /\ MissingCells(anom.df) > MissingCells(anom.input)
    /\ SumHits(anom.hits) = 1
    /\ anom.input = anom.orig

\* Every generator over a readable file has yielded the file's rows up to
\* its position, whatever the connected flag was, and only a generator over
\* a file that cannot be read has raised.
ChunksWhateverTheFlag ==
    \A k \in DOMAIN chk.frames :
        LET fr == chk.frames[k]
        IN /\ fr.pc = "raised" <=> (file # "regular" /\ fr.pc # "created")
           /\ file = "regular"
                => /\ Concat(fr.yielded) = SubSeq(Rows(nrows), 1, fr.pos)
                   /\ fr.pc = "exhausted" => fr.pos = nrows

\* C29: extract_chunked() neither reads nor changes the connector's
\* lifecycle state: creating or resuming a generator leaves the connected
\* flag, last_extraction_time and every other field as they were, and the
\* generator yields the file's chunks also while the flag is false.
C29_ChunkedIgnoresLifecycle ==
    [][/\ chk' # chk => self' = self /\ ret' = ret
       /\ ChunksWhateverTheFlag']_vars

\* C29 witness: after connect() and close(), with the flag false again, a
\* generator has run through the file; nothing was stamped.
C29_Witness ==
    /\ ret.op = "close"
    /\ ~self.connected
    /\ self.last_extraction_time = None
    /\ nrows = 3
    /\ Len(chk.frames) = 1
    /\ chk.frames[1].pc = "exhausted"
    /\ ~chk.frames[1].connected
    /\ chk.frames[1].yielded = << <<1, 2>>, <<3>> >>

\* C30 (as claimed): for every value of the mode option, a PostgreSQL
\* connector whose connect() returned true and that has not been closed
\* since holds a session handle for its mode: a driver connection in direct
\* mode, an engine in pooled mode, and some handle in any case; connect()
\* does not report success without having opened one.
C30_ConnectedHoldsHandle ==
    (self.cls = PG /\ self.connected)
        => /\ self.mode = "psycopg2" => self.connection # None
           /\ self.mode = "sqlalchemy" => self.engine # None
           /\ self.connection # None \/ self.engine # None

====
